---------------------------- MODULE Spec2Model ----------------------------
(***************************************************************************)
(* A model of the newsrack recipes: the Economist recipe                   *)
(* (src/economist.recipe.py) and the Scientific American recipe            *)
(* (src/recipes/scientific-american.recipe.py).                            *)
(*                                                                         *)
(* Strings are sequences of tokens.  A token is a literal character or an  *)
(* HTML entity reference such as "&amp;"; replace_entities maps every      *)
(* entity reference to the character it stands for.  A JSON value is a     *)
(* record tagged by k: "absent" (the key is not there), "null", "str"      *)
(* (field s) or "obj".  An lxml element is a record                        *)
(* [name, attrib, text, tail, kids]; text and tail None are <<>>.          *)
(***************************************************************************)
EXTENDS Integers, Sequences, FiniteSets, TLC

VARIABLES
    nodes,        \* SpecNode: the ContentNode sequence handed to process_node
    html_parent,  \* SpecNode: the element the nodes are materialized into
    parent0,      \* SpecNode: html_parent as it was before the walk
    npc,          \* SpecNode: "idle" | "start" | "done"
    data,         \* SpecLoad: the embedded payload, props.pageProps.content
    body,         \* SpecLoad: the body element of the parsed page
    raised,       \* SpecLoad: the exception load_article_from_json ended with, or "none"
    lpc,          \* SpecLoad: "idle" | "start" | "done"
    recipe,       \* SpecIndex: "economist" | "sciam", the recipe whose parse_index runs
    source,       \* SpecIndex: the index page the recipe reads
    feeds,        \* SpecIndex: what parse_index returns: a sequence of [name, articles]
    cover_url,    \* SpecIndex: self.cover_url
    title,        \* self.title
    iraised,      \* SpecIndex: the exception parse_index ended with, or "none"
    ipc,          \* SpecIndex: "idle" | "start" | "done"
    pub_date,     \* self.pub_date: JNull (None) or [k |-> "dt", t |-> instant]
    summary,      \* SpecMeta: article.summary of the article handled last
    seen,         \* SpecMeta: the instants of the datecreated attributes handled so far
    calls,        \* SpecMeta: the number of populate_article_metadata calls so far
    soup,         \* SpecPost: the downloaded document postprocess_html works on
    soup0,        \* SpecPost: the document before the first pass
    soup1,        \* SpecPost: the document after the first pass
    praised,      \* SpecPost: the exception postprocess_html ended with, or "none"
    passes,       \* SpecPost: the number of postprocess_html calls so far
    raw,          \* SpecPre: the downloaded page preprocess_raw_html is given
    xroot,        \* SpecPre: root, the parsed tree preprocess_raw_html works on
    before,       \* SpecPre: the tree as it was when the lazy-image loop began
    xraised,      \* SpecPre: the exception preprocess_raw_html ended with, or "none"
    xpc           \* SpecPre: "idle" | "start" | "done"

nodeVars == <<nodes, html_parent, parent0, npc>>
loadVars == <<data, body, raised, lpc>>
indexVars == <<recipe, source, feeds, cover_url, iraised, ipc>>
metaVars == <<pub_date, summary, seen, calls>>
postVars == <<soup, soup0, soup1, praised, passes>>
preVars == <<raw, xroot, before, xraised, xpc>>
vars == <<nodeVars, loadVars, indexVars, metaVars, postVars, preVars, title>>

----------------------------------------------------------------------------
(* Bounds *)

\* the most ContentNodes (of any depth) in one sequence given to process_node
MaxNodes == 3

\* the most ContentNodes (of any depth) in the `text` of a payload
MaxTextNodes == 2

\* the most sections of an Economist index page
MaxSections == 2

\* the most article links (Economist) or article previews (Scientific American) of an
\* index page
MaxLinks == 3

\* the most articles populate_article_metadata is called on
MaxArticles == 3

\* the most elements of a downloaded document
MaxSoupNodes == 5

\* the days a timestamp is drawn from are 1..MaxDay
MaxDay == 3

\* the seconds of a day a timestamp is drawn from are 0..SecondsPerDay - 1
SecondsPerDay == 2

\* the most elements under head and body of a page given to preprocess_raw_html
MaxPageNodes == 3

----------------------------------------------------------------------------
(* JSON values *)

JAbsent == [k |-> "absent"]
JNull == [k |-> "null"]
JStr(s) == [k |-> "str", s |-> s]
\* a non-zero JSON number
JNum == [k |-> "num"]

\* Python truthiness of a JSON value that is absent (None from .get), null, a string or a
\* non-zero number
Truthy(v) == (v.k = "str" /\ v.s # <<>>) \/ v.k = "num"

\* `v or ""` for a string-or-null value
OrEmpty(v) == IF Truthy(v) THEN v.s ELSE <<>>

----------------------------------------------------------------------------
(* Sequences *)

RECURSIVE Flatten(_)
Flatten(ss) == IF ss = <<>> THEN <<>> ELSE Head(ss) \o Flatten(Tail(ss))

RECURSIVE SumSeq(_)
SumSeq(ns) == IF ns = <<>> THEN 0 ELSE Head(ns) + SumSeq(Tail(ns))

----------------------------------------------------------------------------
(* calibre.replace_entities: every entity reference becomes its character *)

EntityChar(tok) ==
    CASE tok = "&amp;" -> "&"
      [] tok = "&lt;" -> "<"
      [] OTHER -> tok

replace_entities(s) == [i \in 1..Len(s) |-> EntityChar(s[i])]

----------------------------------------------------------------------------
(* lxml elements *)

makeelement(name, attrib) ==
    [name |-> name, attrib |-> attrib, text |-> <<>>, tail |-> <<>>, kids |-> <<>>]

\* E(parent, name, text, **attrs): make, set text, append
E(parent, name, text, attrib) ==
    [parent EXCEPT !.kids = Append(@, [makeelement(name, attrib) EXCEPT !.text = text])]

\* c.attrib.update({k: v or "" for k, v in node.get("attribs", {}).items()})
AttribUpdate(attribs) == {<<a[1], OrEmpty(a[2])>> : a \in attribs}

RECURSIVE process_node(_, _)
RECURSIVE process_nodes(_, _)

\* process_node with the text assigned instead of appended to what is already there
process_node_overwrite(node, parent) ==
    IF node.type = "tag"
    THEN LET c == makeelement(node.name, AttribUpdate(node.attribs))
         IN  [parent EXCEPT !.kids = Append(@, process_nodes(node.children, c))]
    ELSE IF node.type = "text" /\ Truthy(node.data)
    THEN LET dec == replace_entities(node.data.s)
             n == Len(parent.kids)
         IN  IF n > 0
             THEN [parent EXCEPT !.kids[n].tail = dec]
             ELSE [parent EXCEPT !.text = dec]
    ELSE parent

\* process_node with every text node put in the parent's leading text
process_node_leading(node, parent) ==
    IF node.type = "tag"
    THEN LET c == makeelement(node.name, AttribUpdate(node.attribs))
         IN  [parent EXCEPT !.kids = Append(@, process_nodes(node.children, c))]
    ELSE IF node.type = "text" /\ Truthy(node.data)
    THEN [parent EXCEPT !.text = @ \o replace_entities(node.data.s)]
    ELSE parent

\* process_node(node, html_parent): the parent after the node is materialized
process_node(node, parent) ==
    IF node.type = "tag"
    THEN LET c == makeelement(node.name, AttribUpdate(node.attribs))
         IN  [parent EXCEPT !.kids = Append(@, process_nodes(node.children, c))]
    ELSE IF node.type = "text"
    THEN LET text == node.data
         IN  IF Truthy(text)
             THEN LET dec == replace_entities(text.s)
                      n == Len(parent.kids)
                  IN  IF n > 0
                      THEN [parent EXCEPT !.kids[n].tail = @ \o dec]
                      ELSE [parent EXCEPT !.text = @ \o dec]
             ELSE parent
    ELSE parent

\* for nc in seq: process_node(nc, parent)
process_nodes(seq, parent) ==
    IF seq = <<>> THEN parent
    ELSE process_nodes(Tail(seq), process_node(Head(seq), parent))

----------------------------------------------------------------------------
(* The ContentNodes the model draws its inputs from *)

DataVals == {JAbsent, JStr(<<>>), JStr(<<"a">>), JStr(<<"&amp;">>)}

TextNodes == {[type |-> "text", data |-> d] : d \in DataVals}

\* a node type process_node materializes nothing for
OtherNodes == {[type |-> "comment", data |-> JStr(<<"a">>)]}

TagKinds == {[name |-> "p", attribs |-> {}],
             [name |-> "a", attribs |-> {<<"href", JNull>>}]}

TagNode(kind, children) ==
    [type |-> "tag", name |-> kind.name, attribs |-> kind.attribs, children |-> children]

RECURSIVE ForestsOfSize(_)
RECURSIVE TreesOfSize(_)
TreesOfSize(n) ==
    (IF n = 1 THEN TextNodes \cup OtherNodes ELSE {})
    \cup {TagNode(kd, ch) : kd \in TagKinds, ch \in ForestsOfSize(n - 1)}

ForestsOfSize(n) ==
    IF n = 0 THEN {<<>>}
    ELSE UNION {{<<t>> \o r : t \in TreesOfSize(m), r \in ForestsOfSize(n - m)} : m \in 1..n}

\* the ContentNode sequences of at most max nodes
ForestsUpTo(max) == UNION {ForestsOfSize(n) : n \in 0..max}

----------------------------------------------------------------------------
(* Measures of trees *)

\* number of element descendants of an element
RECURSIVE CountElems(_)
CountElems(e) == SumSeq([i \in 1..Len(e.kids) |-> 1 + CountElems(e.kids[i])])

\* number of tag nodes process_node reaches: the children of a non-tag node are not visited
RECURSIVE CountTags(_)
CountTags(seq) ==
    SumSeq([i \in 1..Len(seq) |->
              IF seq[i].type = "tag" THEN 1 + CountTags(seq[i].children) ELSE 0])

\* document-order traversal of what an element holds: its leading text, then each child
\* (open, contents, close) followed by that child's trailing text
RECURSIVE Inner(_)
Inner(e) ==
    e.text \o Flatten([i \in 1..Len(e.kids) |->
                         <<"<" \o e.kids[i].name \o ">">> \o Inner(e.kids[i])
                            \o <<"</>">> \o e.kids[i].tail])

\* pre-order traversal of a ContentNode sequence, text decoded
RECURSIVE PreOrder(_)
PreOrder(seq) ==
    Flatten([i \in 1..Len(seq) |->
               IF seq[i].type = "tag"
               THEN <<"<" \o seq[i].name \o ">">> \o PreOrder(seq[i].children) \o <<"</>">>
               ELSE IF seq[i].type = "text" THEN replace_entities(OrEmpty(seq[i].data))
               ELSE <<>>])

----------------------------------------------------------------------------
(* load_article_from_json *)

\* obj.get(key): the value, JAbsent when the key is not there
Field(obj, key) == IF key \in DOMAIN obj THEN obj[key] ELSE JAbsent

\* obj.get(key, {}): an empty object when the key is not there
GetOrEmpty(obj, key) ==
    IF Field(obj, key).k = "absent" THEN [k |-> "obj"] ELSE Field(obj, key)

\* data.get("image", {}).get("main", {}).get("url", {}).get("canonical"): a null on the
\* way has no .get and raises AttributeError
main_image_url(d) ==
    LET image == GetOrEmpty(d, "image")
    IN  IF image.k # "obj" THEN [err |-> "AttributeError"]
        ELSE LET main == GetOrEmpty(image, "main")
             IN  IF main.k # "obj" THEN [err |-> "AttributeError"]
                 ELSE LET url == GetOrEmpty(main, "url")
                      IN  IF url.k # "obj" THEN [err |-> "AttributeError"]
                          ELSE [err |-> "none", url |-> Field(url, "canonical")]

\* lxml takes a string as an attribute value and raises on anything else
AttrValueOk(v) == v.k = "str"

\* the image block as a single img element appended to the article, with no wrapper div
ImageBlock_flat(article, url) ==
    IF AttrValueOk(url) THEN E(article, "img", <<>>, {<<"src", url.s>>}) ELSE article

\* the image block: the wrapper div, and the img unless making it raises (swallowed)
ImageBlock(article, url) ==
    LET withDiv == E(article, "div", <<>>, {})
        n == Len(withDiv.kids)
    IN  IF AttrValueOk(url)
        THEN [withDiv EXCEPT !.kids[n] = E(@, "img", <<>>, {<<"src", url.s>>})]
        ELSE withDiv

\* load_article_from_json(raw, root): the body it leaves and the exception it ends with.
\* data[key] raises KeyError when the key is not there.
load_article_from_json(d, body0) ==
    LET cleared == [body0 EXCEPT !.kids = <<>>]
        article0 == makeelement("article", {})
        a1 == E(article0, "h4", OrEmpty(d.subheadline), {<<"style", <<"red">>>>})
        a2 == E(a1, "h1", OrEmpty(d.headline), {<<"style", <<"x-large">>>>})
        a3 == E(a2, "div",
                IF Truthy(d.description) THEN d.description.s ELSE OrEmpty(d.subheadline),
                {<<"style", <<"italic">>>>, <<"id", <<"subheadline">>>>})
        a4 == E(a3, "div",
                OrEmpty(d.datePublishedString)
                    \o (IF Truthy(d.dateline) THEN <<" | ">> ELSE <<>>)
                    \o OrEmpty(d.dateline),
                {<<"style", <<"margin">>>>, <<"datecreated", d.dateModified.s>>})
        img == main_image_url(d)
        a5 == IF Truthy(img.url) THEN ImageBlock(a4, img.url) ELSE a4
        out(article, err) == [body |-> [cleared EXCEPT !.kids = <<article>>], raised |-> err]
    IN  IF d.description.k = "absent" THEN out(a2, "KeyError")
        ELSE IF d.dateline.k = "absent" THEN out(a3, "KeyError")
        ELSE IF img.err # "none" THEN out(a4, img.err)
        ELSE out(process_nodes(d.text, a5), "none")

----------------------------------------------------------------------------
(* SpecLoad: load_article_from_json on an embedded payload *)

OptionalStrings(s) == {JAbsent, JNull, JStr(<<>>), JStr(s)}

CanonicalVals == {JAbsent, JNull, JStr(<<>>), JStr(<<"u">>), JNum}
UrlVals == {JAbsent, JNull} \cup {[k |-> "obj", canonical |-> c] : c \in CanonicalVals}
MainVals == {JAbsent, JNull} \cup {[k |-> "obj", url |-> u] : u \in UrlVals}
ImageVals == {JAbsent, JNull} \cup {[k |-> "obj", main |-> m] : m \in MainVals}

Payloads(maxText) ==
    [subheadline : {JStr(<<"S">>)},
     headline : {JStr(<<"H">>)},
     description : OptionalStrings(<<"D">>),
     datePublishedString : {JStr(<<"2022-04-16">>)},
     dateline : OptionalStrings(<<"L">>),
     dateModified : {JStr(<<"2022-04-16T00:00:00Z">>)},
     image : ImageVals,
     text : ForestsUpTo(maxText)]

\* the server-rendered skeleton under body before the payload is loaded
Skeleton ==
    [makeelement("body", {}) EXCEPT
        !.kids = <<makeelement("div", {}), makeelement("script", {})>>]

LoadIdle ==
    /\ data = JNull
    /\ body = makeelement("body", {})
    /\ raised = "none"
    /\ lpc = "idle"

LoadInit ==
    /\ data \in Payloads(MaxTextNodes)
    /\ body = Skeleton
    /\ raised = "none"
    /\ lpc = "start"

LoadArticle ==
    /\ lpc = "start"
    /\ LET r == load_article_from_json(data, body)
       IN  body' = r.body /\ raised' = r.raised
    /\ lpc' = "done"
    /\ UNCHANGED data
    /\ UNCHANGED <<nodeVars, indexVars, metaVars, postVars, preVars, title>>

LoadNext == LoadArticle

----------------------------------------------------------------------------
(* Dates: a timestamp string "%Y-%m-%dT%H:%M:%SZ" is a record [day, sec] *)

\* datetime.strptime(s, "%Y-%m-%dT%H:%M:%SZ").replace(tzinfo=timezone.utc): the instant
strptime(s) == s.day * SecondsPerDay + s.sec

\* f"Economist: {date_published:%-d %b, %Y}": the title shows the day of the instant only
TitleOf(instant) == <<"Economist: ", instant \div SecondsPerDay>>

\* the class attribute `title` of each recipe
ClassTitle == <<"The Economist">>

----------------------------------------------------------------------------
(* Economist.parse_index *)

Origin == <<"https:", "/", "/", "www.economist.com">>

process_url(url) ==
    IF Len(url) > 0 /\ url[1] = "/" THEN Origin \o url ELSE url

\* the title of a link: "{}: {}" of its two spans, else the text of the whole link
LinkTitle(a) ==
    IF Len(a.spans) = 2 THEN a.spans[1] \o <<": ">> \o a.spans[2] ELSE a.text

\* the description: the itemprop=description element of the enclosing div, when there
LinkDesc(a) == IF a.desc.k = "str" THEN a.desc.s ELSE <<>>

ArticleOf(a) == [title |-> LinkTitle(a), url |-> process_url(a.href), description |-> LinkDesc(a)]

\* the feeds loop with each article put in front of those its section already has
RECURSIVE SectionFeeds_prepend(_)
SectionFeeds_prepend(sections) ==
    IF sections = <<>> THEN <<>>
    ELSE LET sec == Head(sections)
             articles == [j \in 1..Len(sec.links) |->
                            ArticleOf(sec.links[Len(sec.links) + 1 - j])]
         IN  (IF articles # <<>> THEN <<[name |-> sec.name, articles |-> articles]>> ELSE <<>>)
             \o SectionFeeds_prepend(Tail(sections))

\* the feeds loop of economist_parse_index: a section with no article is left out
RECURSIVE SectionFeeds(_)
SectionFeeds(sections) ==
    IF sections = <<>> THEN <<>>
    ELSE LET sec == Head(sections)
             articles == [j \in 1..Len(sec.links) |-> ArticleOf(sec.links[j])]
         IN  (IF articles # <<>> THEN <<[name |-> sec.name, articles |-> articles]>> ELSE <<>>)
             \o SectionFeeds(Tail(sections))

\* economist_parse_index(soup): indexing the payload for the cover raises KeyError when a
\* key on the way to image.main.url.canonical is not there
economist_parse_index(page, title0, cover0) ==
    IF page.script.k = "obj" /\ page.script.cover.k = "absent"
    THEN [raised |-> "KeyError", feeds |-> <<>>, cover_url |-> cover0, title |-> title0]
    ELSE [raised |-> "none",
          feeds |-> SectionFeeds(page.sections),
          cover_url |-> IF page.script.k = "obj" THEN page.script.cover ELSE cover0,
          title |-> IF page.script.k = "obj"
                    THEN TitleOf(strptime(page.script.datePublished)) ELSE title0]

\* Economist.parse_index: NoArticles when economist_parse_index finds nothing
economist_index(page, title0, cover0) ==
    LET r == economist_parse_index(page, title0, cover0)
    IN  IF r.raised = "none" /\ r.feeds = <<>>
        THEN [r EXCEPT !.raised = "NoArticles"]
        ELSE r

----------------------------------------------------------------------------
(* ScientificAmerican.parse_index *)

ArticleBase == <<"https:", "/", "/", "www.scientificamerican.com", "/", "article", "/">>

\* urljoin("https://www.scientificamerican.com/article/", slug)
urljoin(slug) ==
    IF Len(slug) > 0 /\ slug[1] = "https:" THEN slug
    ELSE IF Len(slug) > 1 /\ slug[1] = "/" /\ slug[2] = "/" THEN <<"https:">> \o slug
    ELSE IF Len(slug) > 0 /\ slug[1] = "/" THEN SubSeq(ArticleBase, 1, 4) \o slug
    ELSE ArticleBase \o slug

PreviewOf(article) ==
    [title |-> article.title, url |-> urljoin(article.slug), description |-> article.summary]

\* index of the feed called name, 0 when there is none
FeedIndex(fs, name) ==
    IF \E i \in 1..Len(fs) : fs[i].name = name
    THEN CHOOSE i \in 1..Len(fs) : fs[i].name = name
    ELSE 0

\* if feed_name not in feeds: feeds[feed_name] = []; feeds[feed_name].append(...)
\* (a dict keeps its keys in the order they were first inserted)
AddToFeed(fs, name, art) ==
    LET i == FeedIndex(fs, name)
    IN  IF i = 0 THEN Append(fs, [name |-> name, articles |-> <<art>>])
        ELSE [fs EXCEPT ![i].articles = Append(@, art)]

RECURSIVE AddAll(_, _, _)
AddAll(fs, section, previews) ==
    IF previews = <<>> THEN fs
    ELSE LET article == Head(previews)
             feed_name == IF section = "featured" THEN <<"Features">> ELSE article.category
         IN  AddAll(AddToFeed(fs, feed_name, PreviewOf(article)), section, Tail(previews))

\* the feeds loop of ScientificAmerican.parse_index; feeds.items() is returned as it is
sciam_index(issue_info) ==
    [raised |-> "none",
     feeds |-> AddAll(AddAll(<<>>, "featured", issue_info.featured),
                      "departments", issue_info.departments),
     cover_url |-> issue_info.image_url \o <<"?w=800">>]

----------------------------------------------------------------------------
(* SpecIndex: parse_index of either recipe on an index page *)

LinkKinds ==
    {[href |-> <<"/", "a1">>, spans |-> <<<<"Fly">>, <<"Head">>>>, text |-> <<"FlyHead">>,
      desc |-> JStr(<<"d1">>)],
     [href |-> <<"a2">>, spans |-> <<>>, text |-> <<"T2">>, desc |-> JAbsent],
     [href |-> <<"/", "/", "host", "/", "a3">>, spans |-> <<<<"One">>>>, text |-> <<"One">>,
      desc |-> JStr(<<"d3">>)],
     [href |-> <<"https:", "/", "/", "host", "/", "a4">>, spans |-> <<>>, text |-> <<"T4">>,
      desc |-> JAbsent]}

SectionNames == {<<"Leaders">>, <<"Asia">>}

\* index pages of at most s sections holding at most l links between them
RECURSIVE SectionSeqs(_, _)
SectionSeqs(s, l) ==
    {<<>>} \cup
    (IF s = 0 THEN {}
     ELSE UNION {{<<[name |-> nm, links |-> ls]>> \o rest :
                    nm \in SectionNames, ls \in [1..j -> LinkKinds],
                    rest \in SectionSeqs(s - 1, l - j)} : j \in 0..l})

\* the __NEXT_DATA__ script of the index page: none, or a payload with a cover that is a
\* string, null, or missing with a key on the way to it
Scripts ==
    {JAbsent} \cup
    {[k |-> "obj", cover |-> c, datePublished |-> [day |-> 16, sec |-> 0]] :
        c \in {JStr(<<"c.png">>), JNull, JAbsent}}

EconomistPages(s, l) == [script : Scripts, sections : SectionSeqs(s, l)]

Slugs == {<<"s1">>, <<"s2">>}
Categories == {<<"Advances">>, <<"Features">>}
Previews ==
    {[title |-> <<"t">> \o sl, slug |-> sl, summary |-> <<"sum">>, category |-> c] :
        sl \in Slugs, c \in Categories}

\* the featured previews carry a category too; it is not read
FeaturedSeqs(n) == [1..n -> {p \in Previews : p.category = <<"Advances">>}]

SciAmPages(l) ==
    UNION {UNION {{[image_url |-> <<"i.png">>, featured |-> f, departments |-> d] :
                      f \in FeaturedSeqs(j), d \in [1..m -> Previews]} :
                  m \in 0..(l - j)} : j \in 0..l}

IndexIdle ==
    /\ recipe = "none"
    /\ source = JNull
    /\ feeds = <<>>
    /\ cover_url = JNull
    /\ iraised = "none"
    /\ ipc = "idle"

IndexInit ==
    /\ recipe \in {"economist", "sciam"}
    /\ source \in IF recipe = "economist"
                   THEN EconomistPages(MaxSections, MaxLinks) ELSE SciAmPages(MaxLinks)
    /\ feeds = <<>>
    /\ cover_url = JNull
    /\ title = ClassTitle
    /\ iraised = "none"
    /\ ipc = "start"

EconomistParseIndex ==
    /\ ipc = "start"
    /\ recipe = "economist"
    /\ LET r == economist_index(source, title, cover_url)
       IN  /\ feeds' = r.feeds
           /\ cover_url' = r.cover_url
           /\ title' = r.title
           /\ iraised' = r.raised
    /\ ipc' = "done"
    /\ UNCHANGED <<recipe, source, nodeVars, loadVars, metaVars, postVars, preVars>>

SciAmParseIndex ==
    /\ ipc = "start"
    /\ recipe = "sciam"
    /\ LET r == sciam_index(source)
       IN  /\ feeds' = r.feeds
           /\ cover_url' = JStr(r.cover_url)
           /\ iraised' = r.raised
    /\ ipc' = "done"
    /\ UNCHANGED <<recipe, source, title, nodeVars, loadVars, metaVars, postVars,
                    preVars>>

IndexNext == EconomistParseIndex \/ SciAmParseIndex

----------------------------------------------------------------------------
(* Economist.populate_article_metadata and publication_date *)

\* ". ".join(result) + ("." if result else "")
RECURSIVE JoinDot(_)
JoinDot(result) ==
    IF result = <<>> THEN <<>>
    ELSE IF Len(result) = 1 THEN Head(result) \o <<".">>
    ELSE Head(result) \o <<". ">> \o JoinDot(Tail(result))

\* article.summary: the strings of the first two rubric elements, else the text of the
\* element with id subheadline when there is one (None otherwise)
SummaryOf(art) ==
    LET result == Flatten([i \in 1..(IF Len(art.els) < 2 THEN Len(art.els) ELSE 2) |->
                             art.els[i]])
    IN  IF result # <<>> THEN JStr(JoinDot(result))
        ELSE IF art.sub.k = "str" THEN art.sub
        ELSE JStr(<<>>)

\* the test with the comparison turned round
IsNewer_older(pub, date_published) == pub.k = "null" \/ date_published < pub.t

\* not self.pub_date or date_published > self.pub_date
IsNewer(pub, date_published) == pub.k = "null" \/ date_published > pub.t

\* populate_article_metadata(article, soup, first): the summary, pub_date and title after it
populate_article_metadata(art, pub, title0) ==
    LET div_date == art.datecreated
        date_published == strptime(div_date.s)
        newer == div_date.k = "str" /\ IsNewer(pub, date_published)
    IN  [summary |-> SummaryOf(art),
         pub_date |-> IF newer THEN [k |-> "dt", t |-> date_published] ELSE pub,
         title |-> IF newer THEN TitleOf(date_published) ELSE title0]

\* publication_date(): self.pub_date
publication_date == pub_date

----------------------------------------------------------------------------
(* SpecMeta: populate_article_metadata on one article after another *)

Stamps == {JStr([day |-> d, sec |-> x]) : d \in 1..MaxDay, x \in 0..(SecondsPerDay - 1)}

\* a downloaded article: the strings of its rubric elements, its subheadline element and
\* the datecreated attribute of its date block (absent on a page without a payload)
ArticleSoups ==
    [els : {<<>>, <<<<<<"r1">>>>, <<<<"r2">>, <<"r3">>>>>>},
     sub : {JAbsent, JStr(<<"S">>)},
     datecreated : {JAbsent} \cup Stamps]

MetaIdle ==
    /\ pub_date = JNull
    /\ summary = JNull
    /\ seen = {}
    /\ calls = 0

\* the titles parse_index leaves: the class title, or the one made from datePublished
IndexTitles == {ClassTitle} \cup {TitleOf(strptime(st.s)) : st \in Stamps}

MetaInit ==
    /\ pub_date = JNull
    /\ summary = JNull
    /\ seen = {}
    /\ calls = 0
    /\ title \in IndexTitles

PopulateArticleMetadata ==
    /\ calls < MaxArticles
    /\ \E art \in ArticleSoups :
          LET r == populate_article_metadata(art, pub_date, title)
          IN  /\ summary' = r.summary
              /\ pub_date' = r.pub_date
              /\ title' = r.title
              /\ seen' = IF art.datecreated.k = "str"
                         THEN seen \cup {strptime(art.datecreated.s)} ELSE seen
    /\ calls' = calls + 1
    /\ UNCHANGED <<nodeVars, loadVars, indexVars, postVars, preVars>>

MetaNext == PopulateArticleMetadata

----------------------------------------------------------------------------
(* BeautifulSoup documents.  A document is a tree of [name, attrs, s, kids]; a string   *)
(* (NavigableString) is a node named "#text" with its text in s.  To rewrite a document *)
(* in place it is laid out as a heap: a sequence of nodes, each with its parent (0 when *)
(* it has none) and the heap indexes of its children.                                   *)

RECURSIVE Build(_, _, _)
RECURSIVE BuildKids(_, _, _)
\* the heap after the tree is added under parent par, and the index the tree got
Build(tree, h, par) ==
    LET id == Len(h) + 1
        h1 == Append(h, [name |-> tree.name, attrs |-> tree.attrs, s |-> tree.s,
                         parent |-> par, kids |-> <<>>])
    IN  [heap |-> BuildKids(tree.kids, h1, id), id |-> id]

BuildKids(trees, h, par) ==
    IF trees = <<>> THEN h
    ELSE LET b == Build(Head(trees), h, par)
         IN  BuildKids(Tail(trees), [b.heap EXCEPT ![par].kids = Append(@, b.id)], par)

RECURSIVE ToTree(_, _)
ToTree(h, id) ==
    [name |-> h[id].name, attrs |-> h[id].attrs, s |-> h[id].s,
     kids |-> [i \in 1..Len(h[id].kids) |-> ToTree(h, h[id].kids[i])]]

\* the descendants of a node in document order
RECURSIVE Descendants(_, _)
Descendants(h, id) ==
    Flatten([i \in 1..Len(h[id].kids) |-> <<h[id].kids[i]>> \o Descendants(h, h[id].kids[i])])

\* tag.findAll(name)
findAll(h, id, name) == LET Is(x) == h[x].name = name IN SelectSeq(Descendants(h, id), Is)

\* tag.find(name): the first one, 0 (None) when there is none
find(h, id, name) == IF findAll(h, id, name) = <<>> THEN 0 ELSE Head(findAll(h, id, name))

\* tag_to_string(tag): the strings under the tag, concatenated
tag_to_string(h, id) ==
    IF id = 0 THEN <<>>
    ELSE IF h[id].name = "#text" THEN h[id].s
    ELSE Flatten([i \in 1..Len(Descendants(h, id)) |->
                    IF h[Descendants(h, id)[i]].name = "#text"
                    THEN h[Descendants(h, id)[i]].s ELSE <<>>])

\* del tag[key]
DelAttr(attrs, key) == {a \in attrs : a[1] # key}

Without(seq, x) == LET Not(y) == y # x IN SelectSeq(seq, Not)

\* tag.extract(): out of its parent's children
extract(h, id) ==
    IF h[id].parent = 0 THEN h
    ELSE [h EXCEPT ![h[id].parent].kids = Without(@, id), ![id].parent = 0]

\* old.replaceWith(new): new takes the place of old among the children of old's parent
replaceWith(h, old, new) ==
    LET par == h[old].parent
    IN  [h EXCEPT ![par].kids = [i \in 1..Len(@) |-> IF @[i] = old THEN new ELSE @[i]],
                  ![new].parent = par,
                  ![old].parent = 0]

----------------------------------------------------------------------------
(* Economist.eco_find_image_tables and postprocess_html *)

\* the tables with align right or center, one or two font elements and one img
eco_find_image_tables(h, root) ==
    LET Is(x) == /\ \E a \in h[x].attrs : a[1] = "align" /\ a[2] \in {"right", "center"}
                 /\ Len(findAll(h, x, "font")) \in {1, 2}
                 /\ Len(findAll(h, x, "img")) = 1
    IN  SelectSeq(findAll(h, root, "table"), Is)

\* for img in soup.findAll("img", srcset=True): del img["srcset"]
DelSrcset(h) ==
    [i \in 1..Len(h) |->
        IF h[i].name = "img" THEN [h[i] EXCEPT !.attrs = DelAttr(@, "srcset")] ELSE h[i]]

NewNode(name, attrs, str, par, kids) ==
    [name |-> name, attrs |-> attrs, s |-> str, parent |-> par, kids |-> kids]

\* the body of the loop over the image tables for one table: the heap after it and the
\* exception it raised.  table.find("img") is None when the img was moved out of the
\* table before, and del img["width"] on None raises TypeError.
RewriteTable(h, table) ==
    LET caption == find(h, table, "font")
        img == find(h, table, "img")
        div == Len(h) + 1
        ns == Len(h) + 2
        br == Len(h) + 3
        h1 == h \o <<NewNode("div", {<<"style", "text-align:left;font-size:70%">>}, <<>>,
                              0, <<ns, br>>),
                      NewNode("#text", {}, tag_to_string(h, caption), div, <<>>),
                      NewNode("br", {}, <<>>, div, <<>>)>>
    IN  IF img = 0 THEN [heap |-> h1, raised |-> "TypeError"]
        ELSE LET h2 == [h1 EXCEPT ![img].attrs = DelAttr(DelAttr(@, "width"), "height")]
                 h3 == extract(h2, img)
                 h4 == [h3 EXCEPT ![div].kids = Append(@, img), ![img].parent = div]
             IN  [heap |-> replaceWith(h4, table, div), raised |-> "none"]

RECURSIVE RewriteTables(_, _)
RewriteTables(h, tables) ==
    IF tables = <<>> THEN [heap |-> h, raised |-> "none"]
    ELSE LET r == RewriteTable(h, Head(tables))
         IN  IF r.raised # "none" THEN r ELSE RewriteTables(r.heap, Tail(tables))

\* postprocess_html(soup, first): the document after it and the exception it raised
postprocess_html(doc) ==
    LET h == DelSrcset(Build(doc, <<>>, 0).heap)
        r == RewriteTables(h, eco_find_image_tables(h, 1))
    IN  [soup |-> ToTree(r.heap, 1), raised |-> r.raised]

----------------------------------------------------------------------------
(* SpecPost: postprocess_html applied to a downloaded document, twice *)

Text(str) == [name |-> "#text", attrs |-> {}, s |-> str, kids |-> <<>>]
Tag(name, attrs, kids) == [name |-> name, attrs |-> attrs, s |-> <<>>, kids |-> kids]

\* elements with nothing the model varies under them: two captions and an image
SoupLeaves ==
    {Tag("font", {}, <<Text(<<"A">>)>>),
     Tag("font", {}, <<Text(<<"B">>)>>),
     Tag("img", {<<"src", "i.png">>, <<"srcset", "i2.png 2x">>, <<"width", "10">>}, <<>>)}

\* tables: laid out right, and with no align attribute
TableAttrs == {{<<"align", "right">>}, {}}

RECURSIVE SoupForests(_)
RECURSIVE SoupTrees(_)
SoupTrees(n) ==
    (IF n = 1 THEN SoupLeaves ELSE {})
    \cup {Tag("table", at, ch) : at \in TableAttrs, ch \in SoupForests(n - 1)}

SoupForests(n) ==
    IF n = 0 THEN {<<>>}
    ELSE UNION {{<<t>> \o r : t \in SoupTrees(m), r \in SoupForests(n - m)} : m \in 1..n}

\* the documents of at most max elements
Soups(max) == {Tag("[document]", {}, f) : f \in UNION {SoupForests(n) : n \in 0..max}}

PostIdle ==
    /\ soup = JNull
    /\ soup0 = JNull
    /\ soup1 = JNull
    /\ praised = "none"
    /\ passes = 0

PostInit ==
    /\ soup \in Soups(MaxSoupNodes)
    /\ soup0 = soup
    /\ soup1 = JNull
    /\ praised = "none"
    /\ passes = 0

PostprocessHtml ==
    /\ passes < 2
    /\ praised = "none"
    /\ LET r == postprocess_html(soup)
       IN  /\ soup' = r.soup
           /\ praised' = r.raised
           /\ soup1' = IF passes = 0 THEN r.soup ELSE soup1
    /\ passes' = passes + 1
    /\ UNCHANGED <<soup0, nodeVars, loadVars, indexVars, metaVars, preVars, title>>

PostNext == PostprocessHtml

----------------------------------------------------------------------------
(* Economist.preprocess_raw_html                                                        *)
(*                                                                                      *)
(* The lxml tree is rewritten in place, so it is laid out as a heap like the documents  *)
(* of postprocess_html: a sequence of elements, each with its parent (0 when it has     *)
(* none) and the heap indexes of its children.  An element keeps its text and its tail. *)

RECURSIVE LxmlBuild(_, _, _)
RECURSIVE LxmlBuildKids(_, _, _)
\* the heap after the tree is added under parent par, and the index the tree got
LxmlBuild(tree, h, par) ==
    LET id == Len(h) + 1
        h1 == Append(h, [name |-> tree.name, attrib |-> tree.attrib, text |-> tree.text,
                         tail |-> tree.tail, parent |-> par, kids |-> <<>>])
    IN  [heap |-> LxmlBuildKids(tree.kids, h1, id), id |-> id]

LxmlBuildKids(trees, h, par) ==
    IF trees = <<>> THEN h
    ELSE LET b == LxmlBuild(Head(trees), h, par)
         IN  LxmlBuildKids(Tail(trees), [b.heap EXCEPT ![par].kids = Append(@, b.id)], par)

\* the tree below an element, the one etree.tostring serializes
RECURSIVE LxmlToTree(_, _)
LxmlToTree(h, id) ==
    [name |-> h[id].name, attrib |-> h[id].attrib, text |-> h[id].text,
     tail |-> h[id].tail,
     kids |-> [i \in 1..Len(h[id].kids) |-> LxmlToTree(h, h[id].kids[i])]]

\* root.xpath("//*"): the element and its descendants in document order
Elems(h, rt) == <<rt>> \o Descendants(h, rt)

\* parent.remove(child): the child leaves its parent, and its subtree and its tail leave
\* with it
remove(h, id) == [h EXCEPT ![h[id].parent].kids = Without(@, id), ![id].parent = 0]

\* root.xpath('//script[@id="__NEXT_DATA__"]')
NextDataScripts(h, rt) ==
    LET Is(x) == h[x].name = "script" /\ <<"id", <<"__NEXT_DATA__">>>> \in h[x].attrib
    IN  SelectSeq(Elems(h, rt), Is)

\* root.xpath('//div[@class="lazy-image"]')
LazyDivs(h, rt) ==
    LET Is(x) == h[x].name = "div" /\ <<"class", <<"lazy-image">>>> \in h[x].attrib
    IN  SelectSeq(Elems(h, rt), Is)

\* the markup of an img element with a src attribute, and of one without
ImgTag == "<img src=i.png>"
ImgNoSrc == "<img>"

\* list(parse(text).iter("img")): the img elements the markup holds
ImgsIn(text) == LET Is(tok) == tok \in {ImgTag, ImgNoSrc} IN SelectSeq(text, Is)

\* img.get("src"): None when the attribute is not there
SrcOf(tok) == IF tok = ImgTag THEN JStr(<<"i.png">>) ELSE JNull

\* the body of the loop over the lazy-image divs for one div: the heap after it, the
\* noscript it took out (0 when none) and the exception it raised.  makeelement raises
\* TypeError on src=None.
PromoteNoscript(h, div) ==
    LET noscript == findAll(h, div, "noscript")
        ns == noscript[1]
        img == ImgsIn(h[ns].text)
        src == SrcOf(img[1])
        p == h[ns].parent
        new == Len(h) + 1
        h1 == Append(h, [name |-> "img", attrib |-> {<<"src", src.s>>}, text |-> <<>>,
                         tail |-> <<>>, parent |-> p, kids |-> <<>>])
        \* p.insert(idx, img); p.remove(noscript[0])
        h2 == [h1 EXCEPT ![p].kids = Flatten([i \in 1..Len(@) |->
                                         IF @[i] = ns THEN <<new, ns>> ELSE <<@[i]>>])]
    IN  IF noscript = <<>> \/ h[ns].text = <<>> \/ img = <<>>
        THEN [heap |-> h, gone |-> 0, raised |-> "none"]
        ELSE IF ~AttrValueOk(src) THEN [heap |-> h, gone |-> 0, raised |-> "TypeError"]
        ELSE [heap |-> remove(h2, ns), gone |-> ns, raised |-> "none"]

\* for div in root.xpath('//div[@class="lazy-image"]'): ...
RECURSIVE LazyImages(_, _, _)
LazyImages(h, divs, gone) ==
    IF divs = <<>> THEN [heap |-> h, gone |-> gone, raised |-> "none"]
    ELSE LET r == PromoteNoscript(h, Head(divs))
         IN  IF r.raised # "none" THEN [heap |-> r.heap, gone |-> gone, raised |-> r.raised]
             ELSE LazyImages(r.heap, Tail(divs), gone \cup ({r.gone} \ {0}))

StripNames == {"script", "style", "source", "meta"}

\* root.xpath('//*[name()="script" or name()="style" or name()="source" or name()="meta"]')
StripTargets(h, rt) ==
    LET Is(x) == h[x].name \in StripNames IN SelectSeq(Elems(h, rt), Is)

\* for x in ...: x.getparent().remove(x)
RECURSIVE StripAll(_, _)
StripAll(h, xs) == IF xs = <<>> THEN h ELSE StripAll(remove(h, Head(xs)), Tail(xs))

\* preprocess_raw_html(raw, _): the tree it serializes, the tree as it was when the
\* lazy-image loop began, and the exception it ended with.  page.tree is parse(raw) and
\* page.content is what json.loads gives of the __NEXT_DATA__ script's text.
preprocess_raw_html(page) ==
    LET h0 == LxmlBuild(page.tree, <<>>, 0).heap
        script == NextDataScripts(h0, 1)
        \* body = root.xpath("//body")[0]
        bodyAt == CHOOSE i \in 1..Len(page.tree.kids) : page.tree.kids[i].name = "body"
        loaded == load_article_from_json(page.content, page.tree.kids[bodyAt])
        tree1 == IF script # <<>> THEN [page.tree EXCEPT !.kids[bodyAt] = loaded.body]
                 ELSE page.tree
        h1 == LxmlBuild(tree1, <<>>, 0).heap
        lazy == LazyImages(h1, LazyDivs(h1, 1), {})
        h3 == StripAll(lazy.heap, StripTargets(lazy.heap, 1))
    IN  IF script # <<>> /\ loaded.raised # "none"
        THEN [root |-> tree1, before |-> tree1, raised |-> loaded.raised]
        ELSE IF lazy.raised # "none"
        THEN [root |-> LxmlToTree(lazy.heap, 1), before |-> tree1, raised |-> lazy.raised]
        ELSE [root |-> LxmlToTree(h3, 1), before |-> tree1, raised |-> "none"]

----------------------------------------------------------------------------
(* SpecPre: preprocess_raw_html on a downloaded page *)

Tails == {<<>>, <<"t">>}

\* elements with no children: a script, and a noscript holding an img with a src, an img
\* without one, or no img
PreLeaves ==
    {[makeelement(kd.name, {}) EXCEPT !.text = kd.text, !.tail = tl] :
        kd \in {[name |-> "script", text |-> <<"js">>],
                [name |-> "noscript", text |-> <<ImgTag>>],
                [name |-> "noscript", text |-> <<ImgNoSrc>>],
                [name |-> "noscript", text |-> <<"x">>]},
        tl \in Tails}

\* elements that take children: a lazy-image div and a paragraph
PreBoxes ==
    {[makeelement(kd.name, kd.attrib) EXCEPT !.tail = tl] :
        kd \in {[name |-> "div", attrib |-> {<<"class", <<"lazy-image">>>>}],
                [name |-> "p", attrib |-> {}]},
        tl \in Tails}

RECURSIVE PreForestsOfSize(_)
RECURSIVE PreTreesOfSize(_)
PreTreesOfSize(n) ==
    (IF n = 1 THEN PreLeaves ELSE {})
    \cup {[b EXCEPT !.kids = ch] : b \in PreBoxes, ch \in PreForestsOfSize(n - 1)}

PreForestsOfSize(n) ==
    IF n = 0 THEN {<<>>}
    ELSE UNION {{<<t>> \o r : t \in PreTreesOfSize(m), r \in PreForestsOfSize(n - m)} :
                  m \in 1..n}

\* the payload texts of an article: one tag node, a paragraph or an element the final
\* loop strips, with or without a text node after it
PreTexts ==
    {<<>>}
    \cup {<<TagNode([name |-> nm, attribs |-> {}], <<>>)>> \o after :
            nm \in {"p", "source", "style"},
            after \in {<<>>, <<[type |-> "text", data |-> JStr(<<"a">>)]>>}}

PreContents ==
    [subheadline : {JStr(<<"S">>)},
     headline : {JStr(<<"H">>)},
     description : {JAbsent, JStr(<<"D">>)},
     datePublishedString : {JStr(<<"2022-04-16">>)},
     dateline : {JStr(<<"L">>)},
     dateModified : {JStr(<<"2022-04-16T00:00:00Z">>)},
     image : {JAbsent},
     text : PreTexts]

\* html > (head, body), with the __NEXT_DATA__ script in the head when the page has one
PreTree(hasScript, kids) ==
    LET script == [makeelement("script", {<<"id", <<"__NEXT_DATA__">>>>}) EXCEPT
                      !.text = <<"json">>]
        head == [makeelement("head", {}) EXCEPT
                    !.kids = IF hasScript THEN <<script>> ELSE <<>>]
        bd == [makeelement("body", {}) EXCEPT !.kids = kids]
    IN  [makeelement("html", {}) EXCEPT !.kids = <<head, bd>>]

\* the pages of at most max elements under head and body: server-rendered ones, and ones
\* that embed their article as a payload
PrePages(max) ==
    {[tree |-> PreTree(FALSE, kids), content |-> JNull] :
        kids \in UNION {PreForestsOfSize(n) : n \in 0..max}}
    \cup {[tree |-> PreTree(TRUE, kids), content |-> c] :
            kids \in UNION {PreForestsOfSize(n) : n \in 0..(max - 1)}, c \in PreContents}

PreIdle ==
    /\ raw = [tree |-> PreTree(FALSE, <<>>), content |-> JNull]
    /\ xroot = raw.tree
    /\ before = raw.tree
    /\ xraised = "none"
    /\ xpc = "idle"

PreInit ==
    /\ raw \in PrePages(MaxPageNodes)
    /\ xroot = raw.tree
    /\ before = raw.tree
    /\ xraised = "none"
    /\ xpc = "start"

PreprocessRawHtml ==
    /\ xpc = "start"
    /\ LET r == preprocess_raw_html(raw)
       IN  xroot' = r.root /\ before' = r.before /\ xraised' = r.raised
    /\ xpc' = "done"
    /\ UNCHANGED raw
    /\ UNCHANGED <<nodeVars, loadVars, indexVars, metaVars, postVars, title>>

PreNext == PreprocessRawHtml

----------------------------------------------------------------------------
(* SpecNode: process_node over a ContentNode sequence *)

\* parents the walk starts from: an empty element, one with leading text, one with a child,
\* one with a child that already has trailing text
Parents ==
    LET e == makeelement("article", {})
        h == makeelement("h1", {})
    IN  {e,
         [e EXCEPT !.text = <<"x">>],
         [e EXCEPT !.kids = <<h>>],
         [e EXCEPT !.text = <<"x">>, !.kids = <<[h EXCEPT !.tail = <<"y">>]>>]}

NodeIdle ==
    /\ nodes = <<>>
    /\ html_parent = makeelement("article", {})
    /\ parent0 = html_parent
    /\ npc = "idle"

NodeInit ==
    /\ nodes \in ForestsUpTo(MaxNodes)
    /\ html_parent \in Parents
    /\ parent0 = html_parent
    /\ npc = "start"

ProcessNodes ==
    /\ npc = "start"
    /\ html_parent' = process_nodes(nodes, html_parent)
    /\ npc' = "done"
    /\ UNCHANGED <<nodes, parent0>>
    /\ UNCHANGED <<loadVars, indexVars, metaVars, postVars, preVars, title>>

NodeNext == ProcessNodes

----------------------------------------------------------------------------
(* Specifications: each runs one part of a recipe, the others stay idle *)

InitNode ==
    NodeInit /\ LoadIdle /\ IndexIdle /\ MetaIdle /\ PostIdle /\ PreIdle /\ title = ClassTitle

SpecNode == InitNode /\ [][NodeNext]_vars

InitLoad ==
    LoadInit /\ NodeIdle /\ IndexIdle /\ MetaIdle /\ PostIdle /\ PreIdle /\ title = ClassTitle

SpecLoad == InitLoad /\ [][LoadNext]_vars

InitIndex == IndexInit /\ NodeIdle /\ LoadIdle /\ MetaIdle /\ PostIdle /\ PreIdle

SpecIndex == InitIndex /\ [][IndexNext]_vars

InitMeta == MetaInit /\ NodeIdle /\ LoadIdle /\ IndexIdle /\ PostIdle /\ PreIdle

SpecMeta == InitMeta /\ [][MetaNext]_vars

InitPost ==
    PostInit /\ NodeIdle /\ LoadIdle /\ IndexIdle /\ MetaIdle /\ PreIdle /\ title = ClassTitle

SpecPost == InitPost /\ [][PostNext]_vars

InitPre ==
    PreInit /\ NodeIdle /\ LoadIdle /\ IndexIdle /\ MetaIdle /\ PostIdle /\ title = ClassTitle

SpecPre == InitPre /\ [][PreNext]_vars

----------------------------------------------------------------------------
(* Claims about load_article_from_json *)

OneArticle == Len(body.kids) = 1 /\ body.kids[1].name = "article"

\* the main image url the payload resolves to, JAbsent when the lookup raises
ImageUrl == IF main_image_url(data).err = "none" THEN main_image_url(data).url ELSE JAbsent

HasImage == Truthy(ImageUrl)

\* C1 as stated: one article under body, with 4 element descendants (5 with a main image)
\* plus one per ContentNode materialized as an element
C1_AsStated ==
    (lpc = "done" /\ raised = "none" /\ data.text # <<>>) =>
        /\ OneArticle
        /\ CountElems(body.kids[1])
              = (IF HasImage THEN 5 ELSE 4) + CountTags(data.text)

\* the element descendants of the header: the four header elements, and with a main image
\* the wrapper div and the img in it (the div alone when making the img raised)
HeaderCount ==
    IF ~HasImage THEN 4
    ELSE IF ImageUrl.k = "str" THEN 6
    ELSE 5

\* C1 amended: one article under body; when the load completes its element descendants
\* number 4 without a main image, 6 with one (5 when making the img raised), plus one per
\* tag node reached through tag nodes; when the load raises the article holds only the
\* header elements made before that
C1_DescendantCount ==
    (lpc = "done" /\ data.text # <<>>) =>
        /\ OneArticle
        /\ raised = "none" =>
              CountElems(body.kids[1]) = HeaderCount + CountTags(data.text)
        /\ raised # "none" =>
              CountElems(body.kids[1]) =
                 (IF data.description.k = "absent" THEN 2
                  ELSE IF data.dateline.k = "absent" THEN 3
                  ELSE 4)

C1_Witness ==
    /\ lpc = "done"
    /\ raised = "none"
    /\ HasImage
    /\ ImageUrl.k = "str"
    /\ Len(data.text) = 1
    /\ data.text[1].type = "tag"
    /\ Len(data.text[1].children) = 1
    /\ data.text[1].children[1].type = "text"
    /\ CountElems(body.kids[1]) = 7

Missing(v) == v.k \in {"absent", "null"} \/ v = JStr(<<>>)

\* C3: a payload whose description, dateline or main image is missing (key absent, null
\* or empty) is normalized without raising, with the fallback: the subheadline for the
\* description, no separator for the dateline, no image block
C3_MissingOptionalTolerated ==
    lpc = "done" =>
        /\ raised = "none"
        /\ LET article == body.kids[1]
           IN  /\ Missing(data.description) => article.kids[3].text = data.subheadline.s
               /\ Missing(data.dateline) => article.kids[4].text = data.datePublishedString.s
               /\ ~HasImage => CountElems(article) = 4 + CountTags(data.text)

----------------------------------------------------------------------------
(* Claims about parse_index *)

\* the index page holds no article at all
ZeroFound ==
    IF recipe = "economist"
    THEN \A i \in 1..Len(source.sections) : source.sections[i].links = <<>>
    ELSE source.featured = <<>> /\ source.departments = <<>>

\* C2: whenever index resolution of either recipe finds zero sections/articles it raises
\* NoArticles and never returns an empty feed
C2_ZeroFoundRaises ==
    (ipc = "done" /\ ZeroFound /\ iraised # "KeyError") =>
        /\ iraised = "NoArticles"
        /\ ~(iraised = "none" /\ feeds = <<>>)

\* a url that starts with a scheme and an origin
IsAbsolute(url) ==
    /\ Len(url) >= 4
    /\ url[1] = "https:"
    /\ url[2] = "/"
    /\ url[3] = "/"
    /\ url[4] # "/"

LeadingSlashPath(href) == Len(href) > 1 /\ href[1] = "/" /\ href[2] # "/"

\* C4: every url the Economist index resolver emits is absolute, whatever the form of the
\* href, and a leading-slash path /p becomes https://www.economist.com/p
C4_UrlsAbsolute ==
    (ipc = "done" /\ recipe = "economist" /\ iraised = "none") =>
        /\ \A i \in 1..Len(feeds) : \A j \in 1..Len(feeds[i].articles) :
              IsAbsolute(feeds[i].articles[j].url)
        /\ \A i \in 1..Len(source.sections) : \A j \in 1..Len(source.sections[i].links) :
              LET href == source.sections[i].links[j].href
              IN  LeadingSlashPath(href) =>
                    \E m \in 1..Len(feeds) : \E n \in 1..Len(feeds[m].articles) :
                        feeds[m].articles[n].url
                          = <<"https:", "/", "/", "www.economist.com">> \o href

\* the previews of a Scientific American issue in the order they are read, each with the
\* name of the feed it belongs to
Encountered ==
    [i \in 1..Len(source.featured) |->
        [name |-> <<"Features">>, article |-> source.featured[i]]]
    \o [i \in 1..Len(source.departments) |->
        [name |-> source.departments[i].category, article |-> source.departments[i]]]

\* the names of a sequence in the order of their first occurrence
RECURSIVE FirstNames(_, _)
FirstNames(seq, had) ==
    IF seq = <<>> THEN <<>>
    ELSE IF Head(seq).name \in had THEN FirstNames(Tail(seq), had)
    ELSE <<Head(seq).name>> \o FirstNames(Tail(seq), had \cup {Head(seq).name})

Named(seq, name) == LET Is(x) == x.name = name IN SelectSeq(seq, Is)

\* C5: the feed lists the sections in the order they are encountered and each section's
\* articles in the order they are encountered, none reordered, merged or dropped.
\* Economist: feed i is section i of the page, with its own name and its links in order.
\* Scientific American: a section is a feed name (Features for a featured preview, the
\* category for a department preview); the feeds are the names in order of first
\* occurrence, each with exactly its previews in the order they are read.
C5_OrderPreserved ==
    /\ (/\ ipc = "done" /\ recipe = "economist" /\ iraised # "KeyError"
        /\ source.sections # <<>>
        /\ \A i \in 1..Len(source.sections) : source.sections[i].links # <<>>) =>
          /\ iraised = "none"
          /\ Len(feeds) = Len(source.sections)
          /\ \A i \in 1..Len(feeds) :
                /\ feeds[i].name = source.sections[i].name
                /\ Len(feeds[i].articles) = Len(source.sections[i].links)
                /\ \A j \in 1..Len(feeds[i].articles) :
                      /\ feeds[i].articles[j].title = LinkTitle(source.sections[i].links[j])
                      /\ feeds[i].articles[j].url = process_url(source.sections[i].links[j].href)
    /\ (ipc = "done" /\ recipe = "sciam") =>
          /\ [i \in 1..Len(feeds) |-> feeds[i].name] = FirstNames(Encountered, {})
          /\ \A i \in 1..Len(feeds) :
                LET mine == Named(Encountered, feeds[i].name)
                IN  /\ Len(feeds[i].articles) = Len(mine)
                    /\ \A j \in 1..Len(mine) :
                          /\ feeds[i].articles[j].title = mine[j].article.title
                          /\ feeds[i].articles[j].url = urljoin(mine[j].article.slug)

C5_Witness ==
    /\ ipc = "done"
    /\ recipe = "economist"
    /\ iraised = "none"
    /\ Len(source.sections) = 2
    /\ source.sections[1].name = source.sections[2].name
    /\ Len(source.sections[1].links) = 2
    /\ source.sections[1].links[1] # source.sections[1].links[2]
    /\ Len(source.sections[2].links) = 1
    /\ Len(feeds) = 2
    /\ Len(feeds[1].articles) = 2

----------------------------------------------------------------------------
(* Claims about populate_article_metadata *)

MaxOf(S) == CHOOSE m \in S : \A x \in S : x <= m

\* C10: across any sequence of populate_article_metadata calls pub_date never decreases:
\* once an article with a datecreated timestamp was handled, publication_date() is the
\* greatest timestamp handled so far and title is the string formatted from it, whatever
\* the order of the articles; before that pub_date is None and title is the one
\* parse_index left
C10_PubDateIsMax ==
    /\ [](IF seen = {}
          THEN publication_date = JNull /\ title \in IndexTitles
          ELSE /\ publication_date = [k |-> "dt", t |-> MaxOf(seen)]
               /\ title = <<"Economist: ", MaxOf(seen) \div SecondsPerDay>>)
    /\ [][pub_date.k = "dt" => (pub_date'.k = "dt" /\ pub_date'.t >= pub_date.t)]_vars

C10_Witness ==
    /\ calls = 3
    /\ Cardinality(seen) = 3
    /\ pub_date.k = "dt"
    /\ pub_date.t = MaxOf(seen)
    /\ title # <<"Economist: ", (CHOOSE x \in seen : \A y \in seen : x <= y) \div SecondsPerDay>>

----------------------------------------------------------------------------
(* Claims about postprocess_html *)

\* C7: postprocess_html is idempotent: on every document, also one with several, nested
\* or non-matching tables, applying it twice completes and leaves the tree the first
\* application left
C7_Idempotent ==
    /\ passes >= 1 => praised = "none"
    /\ passes = 2 => soup = soup1

\* the subtrees of a document tree in document order
RECURSIVE SubTrees(_)
SubTrees(tree) ==
    Flatten([i \in 1..Len(tree.kids) |-> <<tree.kids[i]>> \o SubTrees(tree.kids[i])])

NamedSubTrees(tree, name) == LET Is(x) == x.name = name IN SelectSeq(SubTrees(tree), Is)

\* a table of the image-table pattern
IsImageTable(tree) ==
    /\ tree.name = "table"
    /\ \E a \in tree.attrs : a[1] = "align" /\ a[2] \in {"right", "center"}
    /\ Len(NamedSubTrees(tree, "font")) \in {1, 2}
    /\ Len(NamedSubTrees(tree, "img")) = 1

\* the tokens of the strings under a tree
Tokens(tree) ==
    {t.s[j] : <<t, j>> \in {<<x, n>> \in {SubTrees(tree)[i] : i \in 1..Len(SubTrees(tree))}
                                        \X (1..1) : x.name = "#text" /\ n \in 1..Len(x.s)}}

\* C8: every table of the image-table pattern is replaced by a div whose children are the
\* caption text, a line break and the image, in that order, the caption text holding the
\* text of every font element of the table (stated for the tables directly under the
\* document, after a first pass that completed)
C8_CaptionPreserved ==
    (passes = 1 /\ praised = "none") =>
        \A i \in 1..Len(soup0.kids) :
            IsImageTable(soup0.kids[i]) =>
                LET div == soup.kids[i]
                IN  /\ div.name = "div"
                    /\ Len(div.kids) = 3
                    /\ div.kids[1].name = "#text"
                    /\ div.kids[2].name = "br"
                    /\ div.kids[3].name = "img"
                    /\ \A f \in 1..Len(NamedSubTrees(soup0.kids[i], "font")) :
                          Tokens(NamedSubTrees(soup0.kids[i], "font")[f])
                             \subseteq {div.kids[1].s[j] : j \in 1..Len(div.kids[1].s)}

----------------------------------------------------------------------------
(* Claims about process_node *)

\* all text an element holds, in document order
RECURSIVE TextOf(_)
TextOf(e) ==
    e.text \o Flatten([i \in 1..Len(e.kids) |-> TextOf(e.kids[i]) \o e.kids[i].tail])

AllText(seq) == \A i \in 1..Len(seq) : seq[i].type = "text"

\* the entity-decoded data fields of a text-node sequence, concatenated in order
DecodedData(seq) ==
    Flatten([i \in 1..Len(seq) |->
               IF Truthy(seq[i].data)
               THEN [j \in 1..Len(seq[i].data.s) |-> EntityChar(seq[i].data.s[j])]
               ELSE <<>>])

\* the elements of a tree with their text and tail dropped
RECURSIVE Shape(_)
Shape(e) == [name |-> e.name, kids |-> [i \in 1..Len(e.kids) |-> Shape(e.kids[i])]]

\* C6: materializing a sequence of text nodes only appends the decoded data fields, in
\* order, to the text the parent holds, and creates no element, also for nodes whose data
\* is empty or missing
C6_TextOnlyRoundTrip ==
    (npc = "done" /\ AllText(nodes)) =>
        /\ TextOf(html_parent) = TextOf(parent0) \o DecodedData(nodes)
        /\ Shape(html_parent) = Shape(parent0)
        /\ CountElems(html_parent) = CountElems(parent0)

C6_Witness ==
    /\ npc = "done"
    /\ Len(nodes) = 3
    /\ AllText(nodes)
    /\ nodes[1].data = JStr(<<"&amp;">>)
    /\ nodes[2].data = JAbsent
    /\ nodes[3].data = JStr(<<"a">>)
    /\ Len(parent0.kids) = 1
    /\ parent0.kids[1].tail # <<>>

TagOrText(seq) == \A i \in 1..Len(seq) : seq[i].type \in {"tag", "text"}

\* the text nodes a sequence starts with, before its first tag node
RECURSIVE LeadingText(_)
LeadingText(seq) ==
    IF seq = <<>> \/ Head(seq).type # "text" THEN <<>>
    ELSE <<Head(seq)>> \o LeadingText(Tail(seq))

\* C9: a document-order traversal of the materialized parent visits what the parent held,
\* then the elements and text of the ContentNode sequence in its pre-order; text before
\* the first tag node goes to the tail of the parent's last child when it has one and to
\* the parent's leading text otherwise
C9_PreOrderPlacement ==
    (npc = "done" /\ TagOrText(nodes)) =>
        /\ Inner(html_parent) = Inner(parent0) \o PreOrder(nodes)
        /\ LET n == Len(parent0.kids)
               lead == DecodedData(LeadingText(nodes))
           IN  IF n > 0
               THEN /\ html_parent.text = parent0.text
                    /\ html_parent.kids[n].tail = parent0.kids[n].tail \o lead
               ELSE html_parent.text = parent0.text \o lead

C9_Witness ==
    /\ npc = "done"
    /\ Len(nodes) = 2
    /\ nodes[1].type = "tag"
    /\ Len(nodes[1].children) = 1
    /\ nodes[1].children[1].type = "text"
    /\ Truthy(nodes[1].children[1].data)
    /\ nodes[2].type = "text"
    /\ Truthy(nodes[2].data)
    /\ html_parent.kids[Len(html_parent.kids)].text # <<>>
    /\ html_parent.kids[Len(html_parent.kids)].tail # <<>>

----------------------------------------------------------------------------
(* Claims about preprocess_raw_html *)

\* the text of the tree below an element that lies outside the elements in gone and the
\* elements the final loop strips, in document order; the tail of such an element
\* follows it and lies outside it
RECURSIVE OutsideText(_, _, _)
OutsideText(h, id, gone) ==
    h[id].text
    \o Flatten([i \in 1..Len(h[id].kids) |->
                  LET k == h[id].kids[i]
                  IN  (IF k \in gone \/ h[k].name \in StripNames THEN <<>>
                       ELSE OutsideText(h, k, gone))
                      \o h[k].tail])

\* the text of the tree before the two loops that lies outside the promoted noscripts and
\* the stripped elements
KeptText(tree) ==
    LET h == LxmlBuild(tree, <<>>, 0).heap
    IN  OutsideText(h, 1, LazyImages(h, LazyDivs(h, 1), {}).gone)

\* C11: once preprocess_raw_html has returned, every text fragment that lay outside the
\* script/style/source/meta elements and the promoted noscript elements when the
\* lazy-image loop began, the text right after such an element included, is in the
\* output, in its original order, and the output holds no other text
C11_OutsideTextKept ==
    (xpc = "done" /\ xraised = "none") => TextOf(xroot) = KeptText(before)

=============================================================================
